---------------------------- MODULE Spec2Model ----------------------------
(***************************************************************************)
(* Model of .circleci/cimodel/caffe2_build_definitions.py: the expansion   *)
(* of CONFIG_HIERARCHY into Conf records (gen_build_list), their           *)
(* materialisation into the jobs mapping (add_caffe2_builds) and into the  *)
(* workflow list (get_caffe2_workflows).                                   *)
(*                                                                         *)
(* A Python str is a sequence of one-character strings, so that join,      *)
(* replace, quote and substring tests are computed character by character. *)
(* The keys of the yaml tree (literals of the source that no string        *)
(* operation touches) are TLA+ strings.  An OrderedDict is the sequence of *)
(* its <<key, value>> pairs in insertion order.                            *)
(***************************************************************************)
EXTENDS Integers, Sequences, FiniteSets, TLC

VARIABLES
    pc,            \* the function whose body is running, "idle" between calls
    caller,        \* the function that called gen_build_list
    pos,           \* gen_build_list: <<distro, compiler, language, phase>> loop indices
    x,             \* gen_build_list: the list x
    configs,       \* the caller's local configs
    k,             \* the caller's loop index into configs
    jobs_dict,     \* the mapping add_caffe2_builds fills
    wx,            \* get_caffe2_workflows: the list x
    done,          \* the functions that have returned at least once
    out_jobs,      \* jobs_dict as the last add_caffe2_builds call left it
    out_workflows  \* the list the last get_caffe2_workflows call returned

vars == <<pc, caller, pos, x, configs, k, jobs_dict, wx, done, out_jobs, out_workflows>>

-----------------------------------------------------------------------------
(* Collaborators: cimodel.conf_tree, cimodel.miniutils, cimodel.dimensions *)

\* conf_tree.Ver: a name and an optional version (the empty string by default)
Ver(name, version) == [name |-> name, version |-> version]

\* Ver.__str__: the name followed by the version
str_Ver(v) == v.name \o v.version

\* miniutils.quote: the string between double quotes
quote(s) == <<"\"">> \o s \o <<"\"">>

\* miniutils.override: substitutions.get(word, word)
override(word, substitutions) ==
    IF word \in DOMAIN substitutions THEN substitutions[word] ELSE word

\* dimensions.PHASES
PHASES == <<<<"b", "u", "i", "l", "d">>, <<"t", "e", "s", "t">>>>

-----------------------------------------------------------------------------
(* Python built-ins *)

\* sep.join(parts)
RECURSIVE join(_, _)
join(sep, parts) ==
    IF parts = <<>> THEN <<>>
    ELSE IF Len(parts) = 1 THEN parts[1]
    ELSE parts[1] \o sep \o join(sep, Tail(parts))

\* s.replace(old, new) for one-character old and new
replace(s, old, new) == [i \in 1..Len(s) |-> IF s[i] = old THEN new ELSE s[i]]

\* str(n) for a non-negative int
RECURSIVE str_int(_)
str_int(n) ==
    LET digits == <<"0", "1", "2", "3", "4", "5", "6", "7", "8", "9">>
    IN  IF n < 10 THEN <<digits[n + 1]>>
        ELSE str_int(n \div 10) \o <<digits[(n % 10) + 1]>>

\* mutant: the pair is appended whether or not the key is present
dict_setitem_append(d, key, value) == Append(d, <<key, value>>)

\* d[key] = value on an OrderedDict: a present key keeps its place

dict_setitem(d, key, value) ==
    IF \E i \in 1..Len(d) : d[i][1] = key
    THEN [i \in 1..Len(d) |-> IF d[i][1] = key THEN <<key, value>> ELSE d[i]]
    ELSE Append(d, <<key, value>>)

\* OrderedDict(tuples)
RECURSIVE OrderedDict(_)
OrderedDict(tuples) ==
    IF tuples = <<>> THEN <<>>
    ELSE LET n == Len(tuples)
         IN  dict_setitem(OrderedDict(SubSeq(tuples, 1, n - 1)), tuples[n][1], tuples[n][2])

-----------------------------------------------------------------------------
(* Module constants *)

DOCKER_IMAGE_PATH_BASE == <<"3", "0", "8", "5", "3", "5", "3", "8", "5", "1", "1", "4", ".", "d", "k", "r", ".", "e", "c", "r", ".", "u", "s", "-", "e", "a", "s", "t", "-", "1", ".", "a", "m", "a", "z", "o", "n", "a", "w", "s", ".", "c", "o", "m", "/", "c", "a", "f", "f", "e", "2", "/">>

DOCKER_IMAGE_VERSION == 248

CONFIG_HIERARCHY == <<
    <<Ver(<<"u", "b", "u", "n", "t", "u">>, <<"1", "4", ".", "0", "4">>), <<
        <<Ver(<<"g", "c", "c">>, <<"4", ".", "8">>), <<<<"p", "y", "2">>>> >>,
        <<Ver(<<"g", "c", "c">>, <<"4", ".", "9">>), <<<<"p", "y", "2">>>> >>
    >> >>,
    <<Ver(<<"u", "b", "u", "n", "t", "u">>, <<"1", "6", ".", "0", "4">>), <<
        <<Ver(<<"c", "u", "d", "a">>, <<"8", ".", "0">>), <<<<"p", "y", "2">>>> >>,
        <<Ver(<<"c", "u", "d", "a">>, <<"9", ".", "0">>), <<<<"p", "y", "2">>, <<"c", "m", "a", "k", "e">>>> >>,
        <<Ver(<<"c", "u", "d", "a">>, <<"9", ".", "1">>), <<<<"p", "y", "2">>>> >>,
        <<Ver(<<"m", "k", "l">>, <<>>), <<<<"p", "y", "2">>>> >>,
        <<Ver(<<"g", "c", "c">>, <<"5">>), <<<<"o", "n", "n", "x", "_", "p", "y", "2">>>> >>,
        <<Ver(<<"c", "l", "a", "n", "g">>, <<"3", ".", "8">>), <<<<"p", "y", "2">>>> >>,
        <<Ver(<<"c", "l", "a", "n", "g">>, <<"3", ".", "9">>), <<<<"p", "y", "2">>>> >>,
        <<Ver(<<"c", "l", "a", "n", "g">>, <<"7">>), <<<<"p", "y", "2">>>> >>,
        <<Ver(<<"a", "n", "d", "r", "o", "i", "d">>, <<>>), <<<<"p", "y", "2">>>> >>
    >> >>,
    <<Ver(<<"c", "e", "n", "t", "o", "s">>, <<"7">>), <<
        <<Ver(<<"c", "u", "d", "a">>, <<"9", ".", "0">>), <<<<"p", "y", "2">>>> >>
    >> >>,
    <<Ver(<<"m", "a", "c", "o", "s">>, <<"1", "0", ".", "1", "3">>), <<
        <<Ver(<<"i", "o", "s">>, <<>>), <<<<"p", "y", "2">>>> >>,
        <<Ver(<<"s", "y", "s", "t", "e", "m">>, <<>>), <<<<"p", "y", "2">>>> >>
    >> >>
>>

-----------------------------------------------------------------------------
(* class Conf *)

Conf(language, distro, compiler, phase) ==
    [language |-> language, distro |-> distro, compiler |-> compiler, phase |-> phase]

get_platform(c) == IF c.distro.name = <<"m", "a", "c", "o", "s">> THEN <<"m", "a", "c", "o", "s">> ELSE <<"l", "i", "n", "u", "x">>

\* mutant: the platform is not looked at
is_build_only_compiler_only(c) ==
    str_Ver(c.compiler) \in {<<"g", "c", "c", "4", ".", "9">>, <<"c", "l", "a", "n", "g", "3", ".", "8">>, <<"c", "l", "a", "n", "g", "3", ".", "9">>, <<"c", "l", "a", "n", "g", "7">>, <<"a", "n", "d", "r", "o", "i", "d">>}

is_build_only(c) ==
    \/ str_Ver(c.compiler) \in {<<"g", "c", "c", "4", ".", "9">>, <<"c", "l", "a", "n", "g", "3", ".", "8">>, <<"c", "l", "a", "n", "g", "3", ".", "9">>, <<"c", "l", "a", "n", "g", "7">>, <<"a", "n", "d", "r", "o", "i", "d">>}
    \/ get_platform(c) = <<"m", "a", "c", "o", "s">>

\* mutant: mkl is not exempt
get_cudnn_insertion_nomkl(c) ==
    LET omit == \/ c.language = <<"o", "n", "n", "x", "_", "p", "y", "2">>
                \/ c.compiler.name \in {<<"a", "n", "d", "r", "o", "i", "d">>, <<"c", "l", "a", "n", "g">>}
                \/ str_Ver(c.distro) \in {<<"u", "b", "u", "n", "t", "u", "1", "4", ".", "0", "4">>, <<"m", "a", "c", "o", "s", "1", "0", ".", "1", "3">>}
    IN  IF omit THEN <<>> ELSE <<<<"c", "u", "d", "n", "n", "7">>>>

get_cudnn_insertion(c) ==
    LET omit == \/ c.language = <<"o", "n", "n", "x", "_", "p", "y", "2">>
                \/ c.compiler.name \in {<<"a", "n", "d", "r", "o", "i", "d">>, <<"m", "k", "l">>, <<"c", "l", "a", "n", "g">>}
                \/ str_Ver(c.distro) \in {<<"u", "b", "u", "n", "t", "u", "1", "4", ".", "0", "4">>, <<"m", "a", "c", "o", "s", "1", "0", ".", "1", "3">>}
    IN  IF omit THEN <<>> ELSE <<<<"c", "u", "d", "n", "n", "7">>>>

\* mutant: the distro is left out of the name
get_build_name_middle_parts_nodistro(c) ==
    <<str_Ver(c.compiler)>> \o get_cudnn_insertion(c)

get_build_name_middle_parts(c) ==
    <<str_Ver(c.compiler)>> \o get_cudnn_insertion(c) \o <<str_Ver(c.distro)>>

get_build_name_root_parts(c) ==
    <<<<"c", "a", "f", "f", "e", "2">>, c.language>> \o get_build_name_middle_parts(c)

construct_phase_name(c, phase) ==
    LET root_parts == get_build_name_root_parts(c)
    IN  replace(join(<<"_">>, root_parts \o <<phase>>), ".", "_")

get_name(c) == construct_phase_name(c, c.phase)

gen_docker_image(c) ==
    LET lang_substitutions == (<<"o", "n", "n", "x", "_", "p", "y", "2">> :> <<"p", "y", "2">>) @@ (<<"c", "m", "a", "k", "e">> :> <<"p", "y", "2">>)
        lang == override(c.language, lang_substitutions)
        parts == <<lang>> \o get_build_name_middle_parts(c)
    IN  quote(DOCKER_IMAGE_PATH_BASE \o join(<<"-">>, parts) \o <<":">> \o str_int(DOCKER_IMAGE_VERSION))

\* gen_yaml_tree: the BUILD_ENVIRONMENT tuple
build_environment_tuples(c) ==
    LET lang_substitutions == (<<"o", "n", "n", "x", "_", "p", "y", "2">> :> <<"o", "n", "n", "x", "-", "p", "y", "2">>)
        lang == override(c.language, lang_substitutions)
        parts == <<<<"c", "a", "f", "f", "e", "2">>, lang>> \o get_build_name_middle_parts(c) \o <<c.phase>>
        build_env == join(<<"-">>, parts)
    IN  << <<"BUILD_ENVIRONMENT",
             IF ~(c.distro.name = <<"m", "a", "c", "o", "s">>) THEN quote(build_env) ELSE build_env>> >>

\* mutant: BUILD_IOS follows the distro, not the compiler
build_ios_tuples_macos(c) ==
    IF c.distro.name = <<"m", "a", "c", "o", "s">> THEN << <<"BUILD_IOS", quote(<<"1">>)>> >> ELSE <<>>

\* gen_yaml_tree: the BUILD_IOS tuple
build_ios_tuples(c) ==
    IF c.compiler.name = <<"i", "o", "s">> THEN << <<"BUILD_IOS", quote(<<"1">>)>> >> ELSE <<>>

\* gen_yaml_tree: the USE_CUDA_DOCKER_RUNTIME tuple
use_cuda_docker_tuples(c) ==
    IF c.phase = <<"t", "e", "s", "t">>
    THEN LET use_cuda_docker == c.compiler.name = <<"c", "u", "d", "a">>
         IN  IF use_cuda_docker
             THEN << <<"USE_CUDA_DOCKER_RUNTIME", quote(<<"1">>)>> >>
             ELSE <<>>
    ELSE <<>>

\* gen_yaml_tree: the DOCKER_IMAGE tuple
docker_image_tuples(c) ==
    IF ~(c.distro.name = <<"m", "a", "c", "o", "s">>)
    THEN << <<"DOCKER_IMAGE", gen_docker_image(c)>> >>
    ELSE <<>>

\* mutant: BUILD_ONLY on every platform
build_only_tuples_any_platform(c) ==
    IF is_build_only(c) THEN << <<"BUILD_ONLY", quote(<<"1">>)>> >> ELSE <<>>

\* gen_yaml_tree: the BUILD_ONLY tuple
build_only_tuples(c) ==
    IF is_build_only(c)
    THEN IF ~(c.distro.name = <<"m", "a", "c", "o", "s">>)
         THEN << <<"BUILD_ONLY", quote(<<"1">>)>> >>
         ELSE <<>>
    ELSE <<>>

\* gen_yaml_tree: the PYTHON_INSTALLATION and PYTHON_VERSION tuples
python_tuples(c) ==
    IF c.distro.name = <<"m", "a", "c", "o", "s">>
    THEN << <<"PYTHON_INSTALLATION", quote(<<"s", "y", "s", "t", "e", "m">>)>>,
            <<"PYTHON_VERSION", quote(<<"2">>)>> >>
    ELSE <<>>

\* mutant: every test job is large
with_resource_class_large(c, d) ==
    IF c.phase = <<"t", "e", "s", "t">> THEN dict_setitem(d, "resource_class", <<"l", "a", "r", "g", "e">>) ELSE d

\* gen_yaml_tree: d with its resource_class set, for the test phase
with_resource_class(c, d) ==
    IF c.phase = <<"t", "e", "s", "t">>
    THEN LET is_large == c.compiler.name # <<"c", "u", "d", "a">>
             resource_class == IF is_large THEN <<"l", "a", "r", "g", "e">> ELSE <<"g", "p", "u", ".", "m", "e", "d", "i", "u", "m">>
         IN  dict_setitem(d, "resource_class", resource_class)
    ELSE d

gen_yaml_tree(c) ==
    LET tuples == build_environment_tuples(c) \o build_ios_tuples(c)
                      \o use_cuda_docker_tuples(c) \o docker_image_tuples(c)
                      \o build_only_tuples(c) \o python_tuples(c)
        env_dict == OrderedDict(tuples)
        d == with_resource_class(c, OrderedDict(<< <<"environment", env_dict>> >>))
    IN  dict_setitem(d, "<<",
            <<"*">> \o join(<<"_">>, <<<<"c", "a", "f", "f", "e", "2">>, get_platform(c), c.phase, <<"d", "e", "f", "a", "u", "l", "t", "s">>>>))

-----------------------------------------------------------------------------
(* gen_build_list *)

\* the loop indices after one pass of the innermost loop body (no list of
\* CONFIG_HIERARCHY is empty)
next_pos(q) ==
    LET d1 == CONFIG_HIERARCHY[q[1]][2]
        build_languages == d1[q[2]][2]
    IN  IF q[4] < Len(PHASES) THEN <<q[1], q[2], q[3], q[4] + 1>>
        ELSE IF q[3] < Len(build_languages) THEN <<q[1], q[2], q[3] + 1, 1>>
        ELSE IF q[2] < Len(d1) THEN <<q[1], q[2] + 1, 1, 1>>
        ELSE <<q[1] + 1, 1, 1, 1>>

\* the Conf the innermost loop body constructs at loop indices q
conf_at(q) ==
    LET distro == CONFIG_HIERARCHY[q[1]][1]
        d1 == CONFIG_HIERARCHY[q[1]][2]
        compiler_name == d1[q[2]][1]
        build_languages == d1[q[2]][2]
        language == build_languages[q[3]]
        phase == PHASES[q[4]]
    IN  Conf(language, distro, compiler_name, phase)

\* mutant: the record is put at the front of the list
gen_build_list_append_front(list, c) ==
    IF c.phase = <<"b", "u", "i", "l", "d">> \/ ~is_build_only(c) THEN <<c>> \o list ELSE list

\* the list x after the innermost loop body ran for c
gen_build_list_append(list, c) ==
    IF c.phase = <<"b", "u", "i", "l", "d">> \/ ~is_build_only(c) THEN Append(list, c) ELSE list

gen_build_list_call(f) ==
    /\ pc' = "gen_build_list"
    /\ caller' = f
    /\ pos' = <<1, 1, 1, 1>>
    /\ x' = <<>>
    /\ configs' = <<>>
    /\ k' = 1

gen_build_list_step ==
    /\ pc = "gen_build_list"
    /\ pos[1] <= Len(CONFIG_HIERARCHY)
    /\ x' = gen_build_list_append(x, conf_at(pos))
    /\ pos' = next_pos(pos)
    /\ UNCHANGED <<pc, caller, configs, k, jobs_dict, wx, done, out_jobs, out_workflows>>

gen_build_list_return ==
    /\ pc = "gen_build_list"
    /\ pos[1] > Len(CONFIG_HIERARCHY)
    /\ configs' = x
    /\ k' = 1
    /\ pc' = caller
    /\ x' = <<>>
    /\ UNCHANGED <<caller, pos, jobs_dict, wx, done, out_jobs, out_workflows>>

-----------------------------------------------------------------------------
(* add_caffe2_builds *)

\* the caller passes a new empty mapping, or the mapping it already holds
add_caffe2_builds_call ==
    /\ pc = "idle"
    /\ \E fresh \in BOOLEAN : jobs_dict' = IF fresh THEN <<>> ELSE jobs_dict
    /\ gen_build_list_call("add_caffe2_builds")
    /\ UNCHANGED <<wx, done, out_jobs, out_workflows>>

add_caffe2_builds_step ==
    /\ pc = "add_caffe2_builds"
    /\ k <= Len(configs)
    /\ LET conf_options == configs[k]
       IN  jobs_dict' = dict_setitem(jobs_dict, get_name(conf_options),
                                     gen_yaml_tree(conf_options))
    /\ k' = k + 1
    /\ UNCHANGED <<pc, caller, pos, x, configs, wx, done, out_jobs, out_workflows>>

add_caffe2_builds_return ==
    /\ pc = "add_caffe2_builds"
    /\ k > Len(configs)
    /\ pc' = "idle"
    /\ done' = done \cup {"add_caffe2_builds"}
    /\ out_jobs' = jobs_dict
    /\ configs' = <<>>
    /\ k' = 1
    /\ UNCHANGED <<caller, pos, x, jobs_dict, wx, out_workflows>>

-----------------------------------------------------------------------------
(* get_caffe2_workflows *)

\* mutant: the filter looks at the distro only
workflow_filter_distro_only(c) == ~(str_Ver(c.distro) = <<"u", "b", "u", "n", "t", "u", "1", "4", ".", "0", "4">>)

\* the lambda of the filter
workflow_filter(c) ==
    ~(str_Ver(c.distro) = <<"u", "b", "u", "n", "t", "u", "1", "4", ".", "0", "4">> /\ str_Ver(c.compiler) = <<"g", "c", "c", "4", ".", "9">>)

\* mutant: a test entry requires itself
workflow_item_requires_self(conf_options) ==
    IF conf_options.phase = <<"t", "e", "s", "t">>
    THEN [name |-> get_name(conf_options), requires |-> <<get_name(conf_options)>>]
    ELSE [name |-> get_name(conf_options)]

\* the item of one configuration: its name, or for the test phase the
\* mapping {name: {"requires": [build name]}}
workflow_item(conf_options) ==
    IF conf_options.phase = <<"t", "e", "s", "t">>
    THEN [name |-> get_name(conf_options),
          requires |-> <<construct_phase_name(conf_options, <<"b", "u", "i", "l", "d">>)>>]
    ELSE [name |-> get_name(conf_options)]

get_caffe2_workflows_call ==
    /\ pc = "idle"
    /\ wx' = <<>>
    /\ gen_build_list_call("get_caffe2_workflows")
    /\ UNCHANGED <<jobs_dict, done, out_jobs, out_workflows>>

get_caffe2_workflows_step ==
    /\ pc = "get_caffe2_workflows"
    /\ k <= Len(configs)
    /\ LET conf_options == configs[k]
       IN  wx' = IF workflow_filter(conf_options)
                 THEN Append(wx, workflow_item(conf_options))
                 ELSE wx
    /\ k' = k + 1
    /\ UNCHANGED <<pc, caller, pos, x, configs, jobs_dict, done, out_jobs, out_workflows>>

get_caffe2_workflows_return ==
    /\ pc = "get_caffe2_workflows"
    /\ k > Len(configs)
    /\ pc' = "idle"
    /\ done' = done \cup {"get_caffe2_workflows"}
    /\ out_workflows' = wx
    /\ configs' = <<>>
    /\ wx' = <<>>
    /\ k' = 1
    /\ UNCHANGED <<caller, pos, x, jobs_dict, out_jobs>>

-----------------------------------------------------------------------------

Init ==
    /\ pc = "idle"
    /\ caller = "none"
    /\ pos = <<1, 1, 1, 1>>
    /\ x = <<>>
    /\ configs = <<>>
    /\ k = 1
    /\ jobs_dict = <<>>
    /\ wx = <<>>
    /\ done = {}
    /\ out_jobs = <<>>
    /\ out_workflows = <<>>

Next ==
    \/ add_caffe2_builds_call
    \/ gen_build_list_step
    \/ gen_build_list_return
    \/ add_caffe2_builds_step
    \/ add_caffe2_builds_return
    \/ get_caffe2_workflows_call
    \/ get_caffe2_workflows_step
    \/ get_caffe2_workflows_return

Spec == Init /\ [][Next]_vars

-----------------------------------------------------------------------------
(* Vocabulary of the properties *)

\* reading an OrderedDict: key in d
dict_has(d, key) == \E i \in 1..Len(d) : d[i][1] = key

\* d[key]
dict_get(d, key) == d[CHOOSE i \in 1..Len(d) : d[i][1] = key][2]

\* list(d.keys())
dict_keys(d) == [i \in 1..Len(d) |-> d[i][1]]

\* gen_build_list has returned: configs is its whole result
GenDone == pc \in {"add_caffe2_builds", "get_caffe2_workflows"}

\* the loop of add_caffe2_builds has run to its end
AddDone == pc = "add_caffe2_builds" /\ k > Len(configs)

\* the loop of get_caffe2_workflows has run to its end
WfDone == pc = "get_caffe2_workflows" /\ k > Len(configs)

\* the jobs mapping is one that a call of add_caffe2_builds has filled
JobsFilled == "add_caffe2_builds" \in done

\* every <<distro, compiler, language, phase>> position of CONFIG_HIERARCHY x PHASES
AllPos ==
    UNION {UNION {UNION {{<<d, c, l, p>> : p \in 1..Len(PHASES)} :
                         l \in 1..Len(CONFIG_HIERARCHY[d][2][c][2])} :
                  c \in 1..Len(CONFIG_HIERARCHY[d][2])} :
           d \in 1..Len(CONFIG_HIERARCHY)}

\* a comes before b in the order distribution, compiler, language, phase
LexLess(a, b) == \E n \in 1..4 : a[n] < b[n] /\ \A m \in 1..(n - 1) : a[m] = b[m]

PosOf(c) == CHOOSE q \in AllPos : conf_at(q) = c

\* the build-only classification as the specification states it
BuildOnlyClass(c) ==
    \/ str_Ver(c.compiler) \in {<<"g", "c", "c", "4", ".", "9">>, <<"c", "l", "a", "n", "g", "3", ".", "8">>, <<"c", "l", "a", "n", "g", "3", ".", "9">>, <<"c", "l", "a", "n", "g", "7">>, <<"a", "n", "d", "r", "o", "i", "d">>}
    \/ c.distro.name = <<"m", "a", "c", "o", "s">>

\* the configurations the workflow leaves out, as the specification states them
LegacyPair(c) == str_Ver(c.distro) = <<"u", "b", "u", "n", "t", "u", "1", "4", ".", "0", "4">> /\ str_Ver(c.compiler) = <<"g", "c", "c", "4", ".", "9">>

NotLegacyPair(c) == ~LegacyPair(c)

\* the condition under which the specification omits the runtime-library tag
OmitTag(c) ==
    \/ c.language = <<"o", "n", "n", "x", "_", "p", "y", "2">>
    \/ c.compiler.name \in {<<"a", "n", "d", "r", "o", "i", "d">>, <<"m", "k", "l">>, <<"c", "l", "a", "n", "g">>}
    \/ str_Ver(c.distro) \in {<<"u", "b", "u", "n", "t", "u", "1", "4", ".", "0", "4">>, <<"m", "a", "c", "o", "s", "1", "0", ".", "1", "3">>}

\* sub occurs in s
IsSubstr(sub, s) ==
    \E i \in 0..(Len(s) - Len(sub)) : SubSeq(s, i + 1, i + Len(sub)) = sub

\* the names of the records of configs, in order
NamesOf(cs) == [i \in 1..Len(cs) |-> get_name(cs[i])]

\* the job of record c in the jobs mapping, and its environment
JobOf(c) == dict_get(jobs_dict, get_name(c))

EnvOf(c) == dict_get(JobOf(c), "environment")

IsTestEntry(item) == "requires" \in DOMAIN item

-----------------------------------------------------------------------------
(* C1: over the records gen_build_list returns, get_name is injective: two *)
(* emitted records never share a job name, so add_caffe2_builds overwrites *)
(* no key and the jobs mapping has exactly one entry per emitted record.   *)
C1_NamesInjective ==
    GenDone =>
        LET names == NamesOf(configs)
        IN  /\ \A i, j \in 1..Len(configs) :
                   i # j => configs[i] # configs[j] /\ names[i] # names[j]
            /\ AddDone => dict_keys(jobs_dict) = names

C1_Witness == AddDone /\ Len(configs) > 1 /\ Len(jobs_dict) = Len(configs)

(* C2: gen_build_list emits the record of a triple and a phase iff the     *)
(* phase is build or the record is not build-only (compiler one of gcc4.9, *)
(* clang3.8, clang3.9, clang7, android, or distro macos); so every triple  *)
(* has exactly one build record and no build-only test record is emitted.  *)
C2_EmittedIffBuildOrNotBuildOnly ==
    GenDone =>
        LET emitted == {configs[i] : i \in 1..Len(configs)}
        IN  /\ \A q \in AllPos :
                   LET c == conf_at(q)
                   IN  c \in emitted <=> (c.phase = <<"b", "u", "i", "l", "d">> \/ ~BuildOnlyClass(c))
            /\ emitted \subseteq {conf_at(q) : q \in AllPos}
            /\ \A q \in AllPos :
                   LET b == [conf_at(q) EXCEPT !.phase = <<"b", "u", "i", "l", "d">>]
                   IN  Cardinality({i \in 1..Len(configs) : configs[i] = b}) = 1
            /\ \A c \in emitted : ~(c.phase = <<"t", "e", "s", "t">> /\ BuildOnlyClass(c))

C2_Witness ==
    /\ GenDone
    /\ \E i, j \in 1..Len(configs) :
           /\ configs[i].phase = <<"t", "e", "s", "t">>
           /\ configs[j].phase = <<"b", "u", "i", "l", "d">> /\ BuildOnlyClass(configs[j])

(* C3: every test entry {name: {requires: [r]}} of the workflow list       *)
(* requires the name r of the build record of the same language, compiler  *)
(* and distro, r is a bare entry of the same list, and r is a key of the   *)
(* jobs mapping once add_caffe2_builds has filled it.                      *)
C3_RequiresEmittedBuild ==
    WfDone =>
        \A i \in 1..Len(wx) :
            IsTestEntry(wx[i]) =>
                LET r == wx[i].requires[1]
                IN  /\ Len(wx[i].requires) = 1
                    /\ \E t, b \in 1..Len(configs) :
                           /\ configs[t].phase = <<"t", "e", "s", "t">>
                           /\ get_name(configs[t]) = wx[i].name
                           /\ configs[b] = [configs[t] EXCEPT !.phase = <<"b", "u", "i", "l", "d">>]
                           /\ get_name(configs[b]) = r
                    /\ \E j \in 1..Len(wx) : wx[j] = [name |-> r]
                    /\ JobsFilled => dict_has(jobs_dict, r)

C3_Witness ==
    WfDone /\ JobsFilled /\ \E i \in 1..Len(wx) : IsTestEntry(wx[i])

(* C4: get_caffe2_workflows leaves out exactly the records of ubuntu14.04  *)
(* with gcc4.9: the names of the workflow list are the keys of the jobs    *)
(* mapping minus the names of that pair, whose build job is still a key.   *)
C4_ExactlyLegacyPairRemoved ==
    (WfDone /\ JobsFilled) =>
        LET wfnames == {wx[i].name : i \in 1..Len(wx)}
            keys == {jobs_dict[i][1] : i \in 1..Len(jobs_dict)}
            legacy == {i \in 1..Len(configs) : LegacyPair(configs[i])}
            legacynames == {get_name(configs[i]) : i \in legacy}
        IN  /\ wfnames = keys \ legacynames
            /\ Len(wx) = Len(configs) - Cardinality(legacy)
            /\ legacynames # {}
            /\ legacynames \subseteq keys
            /\ get_name(Conf(<<"p", "y", "2">>, Ver(<<"u", "b", "u", "n", "t", "u">>, <<"1", "4", ".", "0", "4">>), Ver(<<"g", "c", "c">>, <<"4", ".", "9">>), <<"b", "u", "i", "l", "d">>))
                   \in legacynames

C4_Witness ==
    WfDone /\ JobsFilled /\ \E i \in 1..Len(configs) : LegacyPair(configs[i])

(* C5: the workflow list keeps the expansion order (distribution, then     *)
(* compiler, then language, then phase): it is the subsequence of the      *)
(* expanded records without the left-out pair, a build record as a bare    *)
(* name and a test record as a mapping with a requires list, so a test     *)
(* entry comes later than the build entry it requires.                     *)
C5_WorkflowKeepsExpansionOrder ==
    WfDone =>
        LET kept == SelectSeq(configs, NotLegacyPair)
        IN  /\ \A i, j \in 1..Len(configs) :
                   i < j => LexLess(PosOf(configs[i]), PosOf(configs[j]))
            /\ Len(wx) = Len(kept)
            /\ \A i \in 1..Len(wx) :
                   /\ wx[i].name = get_name(kept[i])
                   /\ kept[i].phase = <<"b", "u", "i", "l", "d">> => DOMAIN wx[i] = {"name"}
                   /\ kept[i].phase = <<"t", "e", "s", "t">> => DOMAIN wx[i] = {"name", "requires"}
                   /\ IsTestEntry(wx[i]) =>
                          \E j \in 1..(i - 1) : wx[j] = [name |-> wx[i].requires[1]]

C5_Witness ==
    /\ WfDone
    /\ Len(wx) < Len(configs)
    /\ \E i \in 1..Len(wx) : IsTestEntry(wx[i])

(* C6: cudnn7 is inserted between compiler and distro unless the language  *)
(* is onnx_py2, the compiler name is android, mkl or clang, or the distro  *)
(* is ubuntu14.04 or macos10.13; the job name contains the tag exactly     *)
(* when the docker image reference of the record contains it.              *)
C6_CudnnInsertion ==
    AddDone =>
        \A i \in 1..Len(configs) :
            LET c == configs[i]
                tag == <<"c", "u", "d", "n", "n", "7">>
            IN  /\ get_build_name_middle_parts(c) =
                       IF OmitTag(c)
                       THEN <<str_Ver(c.compiler), str_Ver(c.distro)>>
                       ELSE <<str_Ver(c.compiler), tag, str_Ver(c.distro)>>
                /\ IsSubstr(tag, jobs_dict[i][1]) <=> ~OmitTag(c)
                /\ IsSubstr(tag, gen_docker_image(c)) <=> ~OmitTag(c)
                /\ dict_has(EnvOf(c), "DOCKER_IMAGE") =>
                       (IsSubstr(tag, dict_get(EnvOf(c), "DOCKER_IMAGE"))
                            <=> IsSubstr(tag, jobs_dict[i][1]))

C6_Witness ==
    /\ AddDone
    /\ \E i, j \in 1..Len(configs) :
           /\ OmitTag(configs[i]) /\ ~OmitTag(configs[j])
           /\ IsSubstr(<<"c", "u", "d", "n", "n", "7">>, jobs_dict[j][1])

(* C7: a test job of a cuda compiler has resource_class gpu.medium and     *)
(* USE_CUDA_DOCKER_RUNTIME, a test job of another compiler has large and   *)
(* no flag, a build job has neither; ubuntu16.04 x cuda9.0 x [py2, cmake]  *)
(* yields 4 jobs, 2 build and 2 test, both tests gpu.medium with the flag. *)
C7_ResourceClassAndCudaRuntime ==
    AddDone =>
        /\ \A i \in 1..Len(configs) :
               LET c == configs[i]
                   flag == dict_has(EnvOf(c), "USE_CUDA_DOCKER_RUNTIME")
                   rc == dict_has(JobOf(c), "resource_class")
               IN  /\ (c.phase = <<"t", "e", "s", "t">> /\ c.compiler.name = <<"c", "u", "d", "a">>) =>
                          rc /\ dict_get(JobOf(c), "resource_class") = <<"g", "p", "u", ".", "m", "e", "d", "i", "u", "m">> /\ flag
                   /\ (c.phase = <<"t", "e", "s", "t">> /\ c.compiler.name # <<"c", "u", "d", "a">>) =>
                          rc /\ dict_get(JobOf(c), "resource_class") = <<"l", "a", "r", "g", "e">> /\ ~flag
                   /\ c.phase = <<"b", "u", "i", "l", "d">> => ~rc /\ ~flag
        /\ LET sc == {i \in 1..Len(configs) :
                          /\ str_Ver(configs[i].distro) = <<"u", "b", "u", "n", "t", "u", "1", "6", ".", "0", "4">>
                          /\ str_Ver(configs[i].compiler) = <<"c", "u", "d", "a", "9", ".", "0">>}
               tests == {i \in sc : configs[i].phase = <<"t", "e", "s", "t">>}
           IN  /\ Cardinality(sc) = 4
               /\ Cardinality({get_name(configs[i]) : i \in sc}) = 4
               /\ Cardinality(tests) = 2
               /\ Cardinality({i \in sc : configs[i].phase = <<"b", "u", "i", "l", "d">>}) = 2
               /\ {configs[i].language : i \in tests} = {<<"p", "y", "2">>, <<"c", "m", "a", "k", "e">>}
               /\ \A i \in tests :
                      /\ dict_get(JobOf(configs[i]), "resource_class") = <<"g", "p", "u", ".", "m", "e", "d", "i", "u", "m">>
                      /\ dict_has(EnvOf(configs[i]), "USE_CUDA_DOCKER_RUNTIME")

C7_Witness ==
    /\ AddDone
    /\ \E i, j \in 1..Len(configs) :
           /\ configs[i].phase = <<"t", "e", "s", "t">> /\ configs[i].compiler.name = <<"c", "u", "d", "a">>
           /\ configs[i].language = <<"c", "m", "a", "k", "e">>
           /\ dict_has(JobOf(configs[i]), "resource_class")
           /\ configs[j].phase = <<"t", "e", "s", "t">> /\ configs[j].compiler.name # <<"c", "u", "d", "a">>

(* C8: a macos record yields only a build job, whose environment has       *)
(* PYTHON_INSTALLATION "system" and PYTHON_VERSION "2" and no DOCKER_IMAGE;*)
(* over all jobs BUILD_IOS is present exactly when the compiler is ios, so *)
(* macos10.13 x ios x py2 is one build job with BUILD_IOS, the two         *)
(* interpreter variables and no image reference.                           *)
C8_MacosAndIos ==
    AddDone =>
        /\ \A i \in 1..Len(configs) :
               LET c == configs[i]
                   env == EnvOf(c)
               IN  /\ c.distro.name = <<"m", "a", "c", "o", "s">> =>
                          /\ c.phase = <<"b", "u", "i", "l", "d">>
                          /\ dict_has(env, "PYTHON_INSTALLATION")
                          /\ dict_get(env, "PYTHON_INSTALLATION") = quote(<<"s", "y", "s", "t", "e", "m">>)
                          /\ dict_has(env, "PYTHON_VERSION")
                          /\ dict_get(env, "PYTHON_VERSION") = quote(<<"2">>)
                          /\ ~dict_has(env, "DOCKER_IMAGE")
                   /\ dict_has(env, "BUILD_IOS") <=> c.compiler.name = <<"i", "o", "s">>
        /\ LET ios == {i \in 1..Len(configs) :
                           /\ str_Ver(configs[i].distro) = <<"m", "a", "c", "o", "s", "1", "0", ".", "1", "3">>
                           /\ configs[i].compiler.name = <<"i", "o", "s">>
                           /\ configs[i].language = <<"p", "y", "2">>}
           IN  /\ Cardinality(ios) = 1
               /\ \A i \in ios :
                      /\ configs[i].phase = <<"b", "u", "i", "l", "d">>
                      /\ dict_keys(EnvOf(configs[i])) =
                             <<"BUILD_ENVIRONMENT", "BUILD_IOS",
                               "PYTHON_INSTALLATION", "PYTHON_VERSION">>

C8_Witness ==
    /\ AddDone
    /\ \E i, j \in 1..Len(configs) :
           /\ configs[i].compiler.name = <<"i", "o", "s">>
           /\ dict_has(EnvOf(configs[i]), "BUILD_IOS")
           /\ configs[j].distro.name = <<"m", "a", "c", "o", "s">> /\ configs[j].compiler.name # <<"i", "o", "s">>

(* C9: the environment of a job has BUILD_ONLY exactly when the record is  *)
(* build-only and its distro is not macos, and DOCKER_IMAGE exactly when   *)
(* the distro is not macos; so a non-macos build job has BUILD_ONLY        *)
(* exactly when the mapping has no test job of the same language, compiler *)
(* and distro, and a macos job, though build-only, never has BUILD_ONLY.   *)
C9_BuildOnlyAndDockerImage ==
    AddDone =>
        \A i \in 1..Len(configs) :
            LET c == configs[i]
                env == EnvOf(c)
                macos == c.distro.name = <<"m", "a", "c", "o", "s">>
                test == [c EXCEPT !.phase = <<"t", "e", "s", "t">>]
            IN  /\ dict_has(env, "BUILD_ONLY") <=> (BuildOnlyClass(c) /\ ~macos)
                /\ dict_has(env, "DOCKER_IMAGE") <=> ~macos
                /\ (~macos /\ c.phase = <<"b", "u", "i", "l", "d">>) =>
                       (dict_has(env, "BUILD_ONLY") <=>
                            /\ ~dict_has(jobs_dict, get_name(test))
                            /\ \A j \in 1..Len(configs) : configs[j] # test)
                /\ macos => BuildOnlyClass(c) /\ ~dict_has(env, "BUILD_ONLY")

C9_Witness ==
    /\ AddDone
    /\ \E i, j, m \in 1..Len(configs) :
           /\ dict_has(EnvOf(configs[i]), "BUILD_ONLY")
           /\ configs[j].distro.name = <<"m", "a", "c", "o", "s">>
           /\ configs[m].phase = <<"b", "u", "i", "l", "d">> /\ ~BuildOnlyClass(configs[m])

(* C10: two runs on the same static table give identical job mappings      *)
(* (keys, values, key order) and identical workflow lists, and a call of   *)
(* add_caffe2_builds on an already filled mapping leaves it unchanged.     *)
C10_SameAsLastRun ==
    /\ (AddDone /\ JobsFilled) => jobs_dict = out_jobs
    /\ (WfDone /\ "get_caffe2_workflows" \in done) => wx = out_workflows

C10_FilledMappingUnchanged ==
    (pc = "add_caffe2_builds" /\ JobsFilled /\ jobs_dict = out_jobs) =>
        jobs_dict' = jobs_dict

C10_Idempotent == [](C10_SameAsLastRun) /\ [][C10_FilledMappingUnchanged]_vars

C10_Witness ==
    /\ pc = "add_caffe2_builds"
    /\ JobsFilled
    /\ 1 < k /\ k <= Len(configs)
    /\ jobs_dict = out_jobs
    /\ Len(jobs_dict) = Len(configs)
    /\ "get_caffe2_workflows" \in done

=============================================================================
